---- MODULE Spec2Model ----
(***************************************************************************)
(* Debonosu Works PAK container codec: the repacker (src/compress.py) and  *)
(* the unpacker (src/depress.py), modelled at the level of bytes.          *)
(*                                                                         *)
(* A bytes object is a sequence of 0..255; Python's 0-based offset p is    *)
(* element p + 1 of the sequence.  Integer fields stay below 2^31 in every *)
(* input the model draws, so the upper word of a 64-bit field is zero.     *)
(***************************************************************************)
EXTENDS Integers, Sequences, FiniteSets, TLC

\* ------------------------------------------------------------------ bounds
\* Longest index.json entry list the repacker is given.
MaxEntries == 3
\* Deepest directory nesting of the input tree (root entries are depth 0).
MaxDepth == 2

\* ------------------------------------------------------- program constants
GlobalHeaderSize == 16
ExtHeaderSize == 24
EntryFixedSize == 52
TimeSize == 24
DirFlag == 16
DefaultHeaderOffset == 16
DefaultIndexRel == 24
PakVersion == 393232
LowMask == 65536

\* ------------------------------------------------------------ byte helpers
Zeros(n) == [i \in 1..n |-> 0]

\* struct.pack("<I", n)
LE32(n) == <<n % 256, (n \div 256) % 256, (n \div 65536) % 256, (n \div 16777216) % 256>>

\* struct.pack("<Q", n), n < 2^32
LE64(n) == LE32(n) \o Zeros(4)

\* struct.unpack_from("<I", b, pos)
U32(b, pos) == b[pos + 1] + 256 * b[pos + 2] + 65536 * b[pos + 3] + 16777216 * b[pos + 4]

\* struct.unpack_from("<Q", b, pos); the upper word is zero in the model
U64(b, pos) == U32(b, pos)

\* b[lo:hi] for 0 <= lo; Python clips hi to len(b)
Slice(b, lo, hi) ==
  LET h == IF hi > Len(b) THEN Len(b) ELSE hi
  IN IF lo >= h THEN <<>> ELSE [i \in 1..(h - lo) |-> b[lo + i]]

\* b.find(b"\x00", from): the 0-based position of the first zero byte, or -1
FindZero(b, from) ==
  IF \E p \in from..(Len(b) - 1) : b[p + 1] = 0
  THEN CHOOSE p \in from..(Len(b) - 1) : b[p + 1] = 0 /\ \A q \in from..(p - 1) : b[q + 1] # 0
  ELSE -1

\* dict.get(key, default)
Get(d, key, default) == IF key \in DOMAIN d THEN d[key] ELSE default

\* ---------------------------------------------------------------- zlib
\* zlib.compress(raw, level=9, wbits=-15) for the payloads the model packs:
\* the byte strings zlib 1.2/1.3 emits for them (pairs <<raw, stream>>).
ZTable ==
  { << <<>>,               <<3, 0>> >>,
    << <<1, 2, 3>>,        <<99, 100, 98, 6, 0>> >>,
    << <<1, 1, 1, 1, 1>>,  <<99, 100, 4, 2, 0>> >>,
    << <<1, 1, 1, 1, 1, 1>>, <<99, 100, 4, 1, 0>> >> }

\* A single final stored block: a valid raw DEFLATE stream for any input
\* shorter than 65536 bytes.
StoredBlock(raw) ==
  <<1, Len(raw) % 256, Len(raw) \div 256, 255 - (Len(raw) % 256), 255 - (Len(raw) \div 256)>> \o raw

\* zlib.compress: the tabulated stream, and a stored block for any other input
\* (the index buffer); what the codec relies on is inflate(deflate(x)) = x.
Deflate(raw) ==
  IF \E p \in ZTable : p[1] = raw
  THEN (CHOOSE p \in ZTable : p[1] = raw)[2]
  ELSE StoredBlock(raw)

IsStoredBlock(z) ==
  /\ Len(z) >= 5
  /\ z[1] = 1
  /\ z[4] = 255 - z[2]
  /\ z[5] = 255 - z[3]
  /\ Len(z) = 5 + z[2] + 256 * z[3]

\* Bytes a stream outside the modelled ones may inflate to.
UnknownInflated == {<<>>, <<7>>}

\* zlib.decompress(z, wbits=-15): the outcomes.  A modelled stream inflates to
\* its input; any other byte string raises zlib.error or inflates to some
\* bytes the model does not compute.
InflateOutcomes(z) ==
  IF \E p \in ZTable : p[2] = z
  THEN {[ok |-> TRUE, data |-> (CHOOSE p \in ZTable : p[2] = z)[1]]}
  ELSE IF IsStoredBlock(z)
  THEN {[ok |-> TRUE, data |-> Slice(z, 5, Len(z))]}
  ELSE {[ok |-> FALSE, data |-> <<>>]} \cup {[ok |-> TRUE, data |-> d] : d \in UnknownInflated}

\* ---------------------------------------------------------------- names
\* Names are sequences of code points.  cp932 encodes an ASCII character as
\* itself and cannot encode U+00E9; the fallback is UTF-8 of the whole name.
Cp932Encodable(name) == \A i \in 1..Len(name) : name[i] < 128

RECURSIVE Utf8(_)
Utf8(name) ==
  IF name = <<>> THEN <<>>
  ELSE (IF Head(name) < 128 THEN <<Head(name)>>
        ELSE <<192 + (Head(name) \div 64), 128 + (Head(name) % 64)>>) \o Utf8(Tail(name))

\* entry["name"].encode("cp932") with the UnicodeEncodeError fallback
EncodeName(name) == IF Cp932Encodable(name) THEN name ELSE Utf8(name)

\* bytes.decode("shift_jis", errors="replace") on single-byte codes: ASCII is
\* itself, 0xA1..0xDF are the half-width katakana U+FF61.., anything else
\* modelled here is replaced by U+FFFD.
DecodeName(bytes) ==
  [i \in 1..Len(bytes) |->
     IF bytes[i] < 128 THEN bytes[i]
     ELSE IF bytes[i] >= 161 /\ bytes[i] <= 223 THEN 65377 + (bytes[i] - 161)
     ELSE 65533]

\* pathlib.Path(p).name
PathName(path) == path[Len(path)]

\* ----------------------------------------------------------------- state
VARIABLES
  header_info,     \* index.json "header": a dict of header-field overrides
  json_entries,    \* index.json "entries": the ordered descriptor list
  source_files,    \* the source directory: relative path -> file bytes
  bpc,             \* repack main: "idle", "loop", "done" or "exit1"
  next_entry,      \* repack main: position of the for loop in json_entries
  data,            \* PakBuilder.data
  index_entries,   \* PakBuilder.index_entries
  current_offset,  \* PakBuilder.current_offset
  pak_file,        \* the container file on disk: NoFile or its bytes
  dpc,             \* unpack main: "wait", "header", "index", "parsed", "done", "error"
  pak_bytes,       \* unpack main: the bytes read from the container file
  meta,            \* unpack main: the dict read_header returned
  index_data,      \* unpack main: the inflated index
  entries,         \* unpack main: the flat entry list parse_entries returned
  next_file,       \* unpack main: position of the extraction loop in entries
  extracted,       \* the output directory: relative path -> file bytes
  err              \* which error ended the unpack ("" while none)

vars == <<header_info, json_entries, source_files, bpc, next_entry, data, index_entries,
          current_offset, pak_file, dpc, pak_bytes, meta, index_data, entries, next_file,
          extracted, err>>

builderVars == <<bpc, next_entry, data, index_entries, current_offset>>
inputVars == <<header_info, json_entries, source_files>>
decoderVars == <<dpc, pak_bytes, meta, index_data, entries, next_file, extracted, err>>

\* No file at the path: a value that is no byte string.
NoFile == <<-1>>
EmptyDict == [k \in {} |-> 0]
NoMeta == [header_offset |-> 0, index_rel |-> 0, root_count |-> 0, index_uncompressed |-> 0,
           index_compressed |-> 0, index_offset |-> 0, data_offset |-> 0,
           unknown1 |-> 0, unknown2 |-> 0]

\* ------------------------------------------------------------ PakBuilder
\* add_dir: the entry appended to index_entries (time_hex absent)
DirEntry(m) ==
  [type |-> "dir", name |-> PathName(m.path), child_count |-> Get(m, "child_count", 0),
   attributes |-> Get(m, "attributes", DirFlag), time_bytes |-> Zeros(TimeSize)]

\* add_file: the offset recorded for a file added when the cursor is at cur
EntryOffset(cur) == cur

\* A slip in add_file: the cursor is left where it was.
MutAdvanceOffset(cur, csize) == cur

\* add_file: the cursor after a payload of csize compressed bytes
AdvanceOffset(cur, csize) == cur + csize

\* add_file: the entry appended to index_entries (time_hex absent)
FileEntry(m, cur, raw) ==
  [type |-> "file", name |-> PathName(m.path), attributes |-> Get(m, "attributes", 0),
   offset |-> EntryOffset(cur), compressed_size |-> Len(Deflate(raw)),
   uncompressed_size |-> Len(raw), time_bytes |-> Zeros(TimeSize)]

\* build_index: one entry's 52-byte fixed header, its name and the terminator
PackEntry(e) ==
  LET time_bytes == SubSeq(e.time_bytes \o Zeros(TimeSize), 1, TimeSize)
      fixed == IF e.type = "dir"
               THEN LE64(0) \o LE64(e.child_count) \o LE64(0) \o LE32(e.attributes)
               ELSE LE64(e.offset) \o LE64(e.uncompressed_size) \o LE64(e.compressed_size)
                    \o LE32(e.attributes)
  IN fixed \o time_bytes \o EncodeName(e.name) \o <<0>>

RECURSIVE BuildIndex(_)
BuildIndex(es) == IF es = <<>> THEN <<>> ELSE PackEntry(Head(es)) \o BuildIndex(Tail(es))

\* save: struct.pack('<4s I I I', b'PAK\x00', header_offset, 0x00060010, 0)
GlobalHeader(header_offset) ==
  <<80, 65, 75, 0>> \o LE32(header_offset) \o LE32(PakVersion) \o LE32(0)

\* save: struct.pack('<6I', index_rel, unk1, root_count, raw size, comp size, unk2)
ExtHeader(index_rel, unk1, root_count, raw_index_size, comp_index_size, unk2) ==
  LE32(index_rel) \o LE32(unk1) \o LE32(root_count) \o LE32(raw_index_size)
  \o LE32(comp_index_size) \o LE32(unk2)

\* save: the bytes written to output_path
SaveBytes(hdr, es, dat) ==
  LET raw_index == BuildIndex(es)
      compressed_index == Deflate(raw_index)
  IN GlobalHeader(Get(hdr, "header_offset", DefaultHeaderOffset))
     \o ExtHeader(Get(hdr, "index_rel", DefaultIndexRel), Get(hdr, "unknown1", 0),
                  Get(hdr, "root_count", 0), Len(raw_index), Len(compressed_index),
                  Get(hdr, "unknown2", 0))
     \o compressed_index \o dat

\* ------------------------------------------------------------- the inputs
\* File contents the source directory may hold: empty, incompressible
\* (3 -> 5 bytes), deflating to its own length (5 -> 5), and compressible
\* (6 -> 5).
Contents == {p[1] : p \in ZTable}

\* The name of the entry at position i of the list: siblings never collide.
\* With wide set, the first entry's name starts with U+00E9, which cp932
\* cannot encode.
NameAt(i, wide) == IF wide /\ i = 1 THEN <<233, 96 + i>> ELSE <<96 + i>>

\* A tree in pre-order: each node has a kind and a depth; a node may be one
\* level deeper than its predecessor only when the predecessor is a directory.
Kinds == {"dir", "file", "other"}
Nodes == UNION {[1..n -> [kind : Kinds, depth : 0..MaxDepth]] : n \in 0..MaxEntries}

WellFormedNodes(ns) ==
  /\ Len(ns) > 0 => ns[1].depth = 0
  /\ \A i \in 2..Len(ns) :
       /\ ns[i].depth <= ns[i - 1].depth + 1
       /\ ns[i].depth = ns[i - 1].depth + 1 => ns[i - 1].kind = "dir"

\* The positions of the sub-tree below node i (its descendants).
SubTree(ns, i) == {j \in (i + 1)..Len(ns) : \A k \in (i + 1)..j : ns[k].depth > ns[i].depth}

\* Entries of unknown type are skipped by the repacker and count for nothing.
Packed(ns, S) == {j \in S : ns[j].kind # "other"}
DirectChildren(ns, i) == Cardinality(Packed(ns, {j \in SubTree(ns, i) : ns[j].depth = ns[i].depth + 1}))
Descendants(ns, i) == Cardinality(Packed(ns, SubTree(ns, i)))
RootCount(ns) == Cardinality(Packed(ns, {j \in 1..Len(ns) : ns[j].depth = 0}))

\* The relative path of node i: the names of its ancestors, then its own.
PathOf(ns, i, wide) ==
  [d \in 1..(ns[i].depth + 1) |->
     IF d = ns[i].depth + 1 THEN NameAt(i, wide)
     ELSE NameAt(CHOOSE j \in 1..(i - 1) :
                   /\ ns[j].depth = d - 1
                   /\ \A k \in (j + 1)..(i - 1) : ns[k].depth # d - 1, wide)]

\* index.json entries for a tree; cc[i] is the child_count written for node i
JsonEntries(ns, cc, wide) ==
  [i \in 1..Len(ns) |-> [type |-> ns[i].kind, path |-> PathOf(ns, i, wide), child_count |-> cc[i]]]

\* What a directory's child_count may hold: its direct children (what
\* parse_entries loops over) or all of its descendants (the format note).
ChildCounts(ns) ==
  {cc \in [1..Len(ns) -> 0..MaxEntries] :
     \A i \in 1..Len(ns) :
        IF ns[i].kind = "dir" THEN cc[i] \in {DirectChildren(ns, i), Descendants(ns, i)}
        ELSE cc[i] = 0}

FilePaths(js) == {js[i].path : i \in {k \in 1..Len(js) : js[k].type = "file"}}

\* Source directories: every subset of the file paths exists, with any content.
SourceDirs(js) == UNION {[S -> Contents] : S \in SUBSET FilePaths(js)}

\* index.json "header" overrides next to root_count.
HeaderOverrides ==
  { EmptyDict,
    [k \in {"header_offset"} |-> 65552],
    [k \in {"header_offset"} |-> 4096],
    [k \in {"index_rel"} |-> 25] }

\* ------------------------------------------------------------ repack main
InitBuilder ==
  /\ bpc = "loop"
  /\ next_entry = 1
  /\ data = <<>>
  /\ index_entries = <<>>
  /\ current_offset = 0
  /\ pak_file = NoFile

InitDecoder ==
  /\ dpc = "wait"
  /\ pak_bytes = <<>>
  /\ meta = NoMeta
  /\ index_data = <<>>
  /\ entries = <<>>
  /\ next_file = 1
  /\ extracted = EmptyDict
  /\ err = ""

Init ==
  /\ \E ns \in Nodes :
       /\ WellFormedNodes(ns)
       /\ \E cc \in ChildCounts(ns), wide \in BOOLEAN : json_entries = JsonEntries(ns, cc, wide)
       /\ \E ov \in HeaderOverrides :
            header_info = ov @@ [k \in {"root_count"} |-> RootCount(ns)]
  /\ source_files \in SourceDirs(json_entries)
  /\ InitBuilder
  /\ InitDecoder

CurrentInfo == json_entries[next_entry]

\* main, lines 178-180: builder.add_dir(entry_info)
MainAddDir ==
  /\ bpc = "loop" /\ next_entry <= Len(json_entries)
  /\ CurrentInfo.type = "dir"
  /\ index_entries' = Append(index_entries, DirEntry(CurrentInfo))
  /\ next_entry' = next_entry + 1
  /\ UNCHANGED <<inputVars, bpc, data, current_offset, pak_file, decoderVars>>

\* main, lines 182-186: builder.add_file(file_path, entry_info) returns
MainAddFile ==
  /\ bpc = "loop" /\ next_entry <= Len(json_entries)
  /\ CurrentInfo.type = "file"
  /\ CurrentInfo.path \in DOMAIN source_files
  /\ LET raw_data == source_files[CurrentInfo.path]
         compressed_data == Deflate(raw_data)
     IN /\ index_entries' = Append(index_entries, FileEntry(CurrentInfo, current_offset, raw_data))
        /\ data' = data \o compressed_data
        /\ current_offset' = AdvanceOffset(current_offset, Len(compressed_data))
  /\ next_entry' = next_entry + 1
  /\ UNCHANGED <<inputVars, bpc, pak_file, decoderVars>>

\* A slip in main: the missing file is reported and the loop goes on.
MutMainAddFileError ==
  /\ bpc = "loop" /\ next_entry <= Len(json_entries)
  /\ CurrentInfo.type = "file"
  /\ CurrentInfo.path \notin DOMAIN source_files
  /\ next_entry' = next_entry + 1
  /\ UNCHANGED <<inputVars, bpc, data, index_entries, current_offset, pak_file, decoderVars>>

\* main, lines 187-189: add_file raised FileNotFoundError; sys.exit(1)
MainAddFileError ==
  /\ bpc = "loop" /\ next_entry <= Len(json_entries)
  /\ CurrentInfo.type = "file"
  /\ CurrentInfo.path \notin DOMAIN source_files
  /\ bpc' = "exit1"
  /\ UNCHANGED <<inputVars, next_entry, data, index_entries, current_offset, pak_file, decoderVars>>

\* main, lines 190-191: unknown entry type, skipped with a warning
MainSkipUnknown ==
  /\ bpc = "loop" /\ next_entry <= Len(json_entries)
  /\ CurrentInfo.type \notin {"dir", "file"}
  /\ next_entry' = next_entry + 1
  /\ UNCHANGED <<inputVars, bpc, data, index_entries, current_offset, pak_file, decoderVars>>

\* main, lines 193-198: the loop is over; builder.save(args.out)
MainSave ==
  /\ bpc = "loop" /\ next_entry > Len(json_entries)
  /\ pak_file' = SaveBytes(header_info, index_entries, data)
  /\ bpc' = "done"
  /\ UNCHANGED <<inputVars, next_entry, data, index_entries, current_offset, decoderVars>>

\* ------------------------------------------------------------ read_header
\* candidates = [raw_header & 0xFFFF], then raw_header when it differs
Candidates(raw_header) ==
  LET header_offset == raw_header % LowMask
  IN IF raw_header = header_offset THEN <<header_offset>> ELSE <<header_offset, raw_header>>

\* The dict read_header returns for the extended header read at candidate.
HeaderAt(pak, candidate) ==
  LET idx_rel == U32(pak, candidate)
      idx_c == U32(pak, candidate + 16)
  IN [header_offset |-> candidate, index_rel |-> idx_rel,
      root_count |-> U32(pak, candidate + 8),
      index_uncompressed |-> U32(pak, candidate + 12),
      index_compressed |-> idx_c,
      index_offset |-> candidate + idx_rel,
      data_offset |-> candidate + idx_rel + idx_c,
      unknown1 |-> U32(pak, candidate + 4), unknown2 |-> U32(pak, candidate + 20)]

\* A slip in read_header: the data offset must lie strictly inside.
MutCandidateOk(pak, candidate) ==
  /\ candidate + ExtHeaderSize <= Len(pak)
  /\ U32(pak, candidate + 12) # 0
  /\ U32(pak, candidate + 16) # 0
  /\ candidate + U32(pak, candidate) + U32(pak, candidate + 16) < Len(pak)

\* lines 41-47: the candidate fits and its extended header is plausible
CandidateOk(pak, candidate) ==
  /\ candidate + ExtHeaderSize <= Len(pak)
  /\ HeaderAt(pak, candidate).index_uncompressed # 0
  /\ HeaderAt(pak, candidate).index_compressed # 0
  /\ HeaderAt(pak, candidate).data_offset <= Len(pak)

\* lines 40-60: the first candidate that qualifies, or PakError
RECURSIVE TryCandidates(_, _)
TryCandidates(pak, cs) ==
  IF cs = <<>> THEN [ok |-> FALSE, meta |-> NoMeta]
  ELSE IF CandidateOk(pak, Head(cs)) THEN [ok |-> TRUE, meta |-> HeaderAt(pak, Head(cs))]
  ELSE TryCandidates(pak, Tail(cs))

ReadHeader(pak) ==
  IF Len(pak) < GlobalHeaderSize THEN [ok |-> FALSE, meta |-> NoMeta]
  ELSE IF SubSeq(pak, 1, 4) # <<80, 65, 75, 0>> THEN [ok |-> FALSE, meta |-> NoMeta]
  ELSE TryCandidates(pak, Candidates(U32(pak, 4)))

\* ---------------------------------------------------------- parse_entries
\* The depth of nested calls the interpreter allows (sys.getrecursionlimit()
\* of CPython, which the program never raises); every directory entry makes
\* parse_entries call itself once more.  The callers' own frames make the
\* depth parse_entries really gets a little smaller.
RecursionLimit == 1000

\* attrs & 0x10
IsDirectory(attrs) == (attrs \div DirFlag) % 2 = 1

\* A slip in parse_entries: the recursive call is handed one entry too few.
MutChildLoopCount(child_count) == IF child_count > 0 THEN child_count - 1 ELSE 0

\* line 90: the count handed to the recursive call for a directory
ChildLoopCount(child_count) == child_count

\* parse_entries is run as the interpreter runs it: frames is the stack of its
\* calls, each with the iterations its for loop has left and its prefix; pos
\* is the position the innermost call has reached, and entries is the list
\* the calls build (a call's own list is a suffix of it until line 91 joins
\* it to the caller's).  status is "run" until the outermost call returned
\* ("ok"), raised PakError ("index_corrupt"), or the interpreter raised
\* RecursionError ("recursion").
ParseCall(start, count, prefix) ==
  [frames |-> <<[count |-> count, prefix |-> prefix]>>, pos |-> start,
   entries |-> <<>>, status |-> "run"]

\* lines 72-103: one iteration of the innermost call's for loop
ParseIteration(buf, m) ==
  LET top == Len(m.frames)
      prefix == m.frames[top].prefix
      start == m.pos
  IN IF start + EntryFixedSize > Len(buf) THEN [m EXCEPT !.status = "index_corrupt"]
     ELSE
       LET offset == U64(buf, start)
           usize == U64(buf, start + 8)
           csize == U64(buf, start + 16)
           flags == U32(buf, start + 24)
           time_bytes == Slice(buf, start + 28, start + EntryFixedSize)
           name_end == FindZero(buf, start + EntryFixedSize)
           name == DecodeName(Slice(buf, start + EntryFixedSize, name_end))
           path == prefix \o <<name>>
           dir == [type |-> "dir", path |-> path, child_count |-> usize,
                   attributes |-> flags, time_bytes |-> time_bytes]
           file == [type |-> "file", path |-> path, offset |-> offset,
                    compressed_size |-> csize, uncompressed_size |-> usize,
                    attributes |-> flags, time_bytes |-> time_bytes]
           looped == [m.frames EXCEPT ![top].count = @ - 1]
       IN IF name_end = -1 THEN [m EXCEPT !.status = "index_corrupt"]
          ELSE IF ~IsDirectory(flags)
          THEN [m EXCEPT !.pos = name_end + 1, !.entries = Append(@, file),
                         !.frames = looped]
          ELSE IF top + 1 > RecursionLimit
          THEN [m EXCEPT !.status = "recursion"]
          ELSE [m EXCEPT !.pos = name_end + 1, !.entries = Append(@, dir),
                         !.frames = Append(looped, [count |-> ChildLoopCount(usize),
                                                    prefix |-> path])]

\* line 105: the innermost call returns pos and its entries to its caller
ParseReturn(m) ==
  IF Len(m.frames) = 1 THEN [m EXCEPT !.frames = <<>>, !.status = "ok"]
  ELSE [m EXCEPT !.frames = SubSeq(@, 1, Len(@) - 1)]

\* The next thing the interpreter does inside parse_entries.
ParseStep(buf, m) ==
  IF m.status # "run" THEN m
  ELSE IF m.frames[Len(m.frames)].count = 0 THEN ParseReturn(m)
  ELSE ParseIteration(buf, m)

\* n steps of the interpreter, split in halves.
RECURSIVE ParseSteps(_, _, _)
ParseSteps(buf, m, n) ==
  IF n = 0 \/ m.status # "run" THEN m
  ELSE IF n = 1 THEN ParseStep(buf, m)
  ELSE ParseSteps(buf, ParseSteps(buf, m, n \div 2), n - (n \div 2))

\* The steps parse_entries is followed for: an iteration that does not raise
\* moves pos past the 52 bytes and the terminator of an entry, every call
\* returns once, and one more step raises.
StepBudget(buf) == 2 * (Len(buf) \div (EntryFixedSize + 1)) + 2

\* parse_entries(index_data, start, count, prefix): (pos, entries) or the
\* exception; err stays "run" when the budget did not bring it to an end.
ParseEntries(buf, start, count, prefix) ==
  LET m == ParseSteps(buf, ParseCall(start, count, prefix), StepBudget(buf))
  IN [ok |-> m.status = "ok", pos |-> m.pos,
      entries |-> IF m.status = "ok" THEN m.entries ELSE <<>>, err |-> m.status]

\* ----------------------------------------------------------- extract_file
\* A slip in extract_file: only the start of the slice is checked.
MutOutOfRange(pak, abs_off, csize) == abs_off > Len(pak)

\* line 114: the slice leaves the container
OutOfRange(pak, abs_off, csize) == abs_off + csize > Len(pak)

\* line 119: the payload goes through zlib.decompress
NeedsInflate(csize, usize) == csize # usize

\* A slip in extract_file: only a payload longer than declared is refused.
MutSizeMismatch(payload, usize) == Len(payload) > usize

\* line 125: the payload does not have the declared size
SizeMismatch(payload, usize) == Len(payload) # usize

\* The ways extract_file can end: "written" with the bytes written to the
\* target, or the PakError raised ("range", "inflate", "size").
ExtractOutcomes(pak, entry, base_offset) ==
  LET abs_off == base_offset + entry.offset
      csize == entry.compressed_size
      usize == entry.uncompressed_size
      sliced == Slice(pak, abs_off, abs_off + csize)
      Finish(payload) == IF SizeMismatch(payload, usize)
                         THEN [status |-> "size", payload |-> <<>>]
                         ELSE [status |-> "written", payload |-> payload]
  IN IF OutOfRange(pak, abs_off, csize) THEN {[status |-> "range", payload |-> <<>>]}
     ELSE IF NeedsInflate(csize, usize)
     THEN {IF r.ok THEN Finish(r.data) ELSE [status |-> "inflate", payload |-> <<>>] :
             r \in InflateOutcomes(sliced)}
     ELSE {Finish(sliced)}

\* ------------------------------------------------------------ unpack main
\* lines 154-155: read the container, read_header
UnpackReadHeader ==
  /\ dpc = "wait" /\ pak_file # NoFile
  /\ pak_bytes' = pak_file
  /\ LET r == ReadHeader(pak_file)
     IN IF r.ok THEN /\ meta' = r.meta /\ dpc' = "header" /\ err' = err
        ELSE /\ meta' = meta /\ dpc' = "error" /\ err' = "header"
  /\ UNCHANGED <<inputVars, builderVars, pak_file, index_data, entries, next_file, extracted>>

\* lines 157-162: inflate the index blob and check its size
UnpackInflateIndex ==
  /\ dpc = "header"
  /\ \E r \in InflateOutcomes(Slice(pak_bytes, meta.index_offset,
                                    meta.index_offset + meta.index_compressed)) :
       IF ~r.ok THEN /\ dpc' = "error" /\ err' = "zlib" /\ index_data' = index_data
       ELSE IF Len(r.data) # meta.index_uncompressed
       THEN /\ dpc' = "error" /\ err' = "index_size" /\ index_data' = index_data
       ELSE /\ dpc' = "index" /\ err' = err /\ index_data' = r.data
  /\ UNCHANGED <<inputVars, builderVars, pak_file, pak_bytes, meta, entries, next_file, extracted>>

\* lines 164-166: parse_entries(index_data, 0, root_count, Path())
UnpackParse ==
  /\ dpc = "index"
  /\ LET r == ParseEntries(index_data, 0, meta.root_count, <<>>)
     IN IF r.ok THEN /\ entries' = r.entries /\ dpc' = "parsed" /\ err' = err
        ELSE /\ entries' = entries /\ dpc' = "error" /\ err' = r.err
  /\ UNCHANGED <<inputVars, builderVars, pak_file, pak_bytes, meta, index_data, next_file, extracted>>

\* Positions of the File entries the extraction loop has not reached yet.
FilesLeft == {j \in next_file..Len(entries) : entries[j].type = "file"}
NextFilePos == CHOOSE j \in FilesLeft : \A k \in FilesLeft : j <= k

\* lines 199-200: extract_file on the next File entry
UnpackExtract ==
  /\ dpc = "parsed" /\ FilesLeft # {}
  /\ \E o \in ExtractOutcomes(pak_bytes, entries[NextFilePos], meta.data_offset) :
       IF o.status = "written"
       THEN /\ extracted' = (entries[NextFilePos].path :> o.payload) @@ extracted
            /\ next_file' = NextFilePos + 1
            /\ dpc' = dpc /\ err' = err
       ELSE /\ extracted' = extracted /\ next_file' = NextFilePos
            /\ dpc' = "error" /\ err' = o.status
  /\ UNCHANGED <<inputVars, builderVars, pak_file, pak_bytes, meta, index_data, entries>>

\* line 202: every File entry is extracted
UnpackDone ==
  /\ dpc = "parsed" /\ FilesLeft = {}
  /\ dpc' = "done"
  /\ UNCHANGED <<inputVars, builderVars, pak_file, pak_bytes, meta, index_data, entries,
                 next_file, extracted, err>>

Next ==
  \/ MainAddDir \/ MainAddFile \/ MainAddFileError \/ MainSkipUnknown \/ MainSave
  \/ UnpackReadHeader \/ UnpackInflateIndex \/ UnpackParse \/ UnpackExtract \/ UnpackDone

Spec == Init /\ [][Next]_vars

\* --------------------------------------------- unpacking foreign containers
\* Largest offset a foreign File entry declares.
MaxForeignOffset == 1
\* How far a foreign container's declared sizes stray from the true ones.
MaxSizeDelta == 1

Max(a, b) == IF a > b THEN a ELSE b

\* A container of another producer, laid out as save lays it out: one File
\* entry with any offset and sizes over a data section holding one deflated
\* payload, and an index_uncompressed_size that is off by du.
ForeignPak(entry, dat, du) ==
  LET raw_index == BuildIndex(<<entry>>)
      compressed_index == Deflate(raw_index)
  IN GlobalHeader(DefaultHeaderOffset)
     \o ExtHeader(DefaultIndexRel, 0, 1, Len(raw_index) + du, Len(compressed_index), 0)
     \o compressed_index \o dat

InitIdleBuilder ==
  /\ header_info = EmptyDict
  /\ json_entries = <<>>
  /\ source_files = EmptyDict
  /\ bpc = "idle"
  /\ next_entry = 1
  /\ data = <<>>
  /\ index_entries = <<>>
  /\ current_offset = 0

InitForeign ==
  /\ InitIdleBuilder
  /\ InitDecoder
  /\ \E c \in Contents, off \in 0..MaxForeignOffset, du \in (0 - MaxSizeDelta)..MaxSizeDelta :
       \E csize \in 0..(Len(Deflate(c)) + MaxSizeDelta) :
         \E usize \in {csize} \cup (Max(0, Len(c) - MaxSizeDelta)..(Len(c) + MaxSizeDelta)) :
           pak_file = ForeignPak([type |-> "file", name |-> <<97>>, attributes |-> 0,
                                  offset |-> off, compressed_size |-> csize,
                                  uncompressed_size |-> usize,
                                  time_bytes |-> Zeros(TimeSize)],
                                 Deflate(c), du)

NextUnpack ==
  UnpackReadHeader \/ UnpackInflateIndex \/ UnpackParse \/ UnpackExtract \/ UnpackDone

SpecForeign == InitForeign /\ [][NextUnpack]_vars

\* ------------------------------------------- parse_entries on any buffer
\* Entries an index buffer is put together from.
MaxParseEntries == 3
\* A count far larger than any buffer.
HugeCount == 2147483647

\* One packed entry of an index buffer: a File, or a Directory whose
\* child_count slot holds cc, with a name of one byte or none.
ParseItems ==
  {PackEntry([type |-> "file", name |-> nm, attributes |-> 0, offset |-> 0,
              compressed_size |-> 0, uncompressed_size |-> 0,
              time_bytes |-> Zeros(TimeSize)]) : nm \in {<<>>, <<97>>}}
  \cup
  {PackEntry([type |-> "dir", name |-> <<97>>, attributes |-> DirFlag,
              child_count |-> cc, time_bytes |-> Zeros(TimeSize)]) : cc \in {0, 1, 2, HugeCount}}

RECURSIVE Concat(_)
Concat(bs) == IF bs = <<>> THEN <<>> ELSE Head(bs) \o Concat(Tail(bs))

\* Buffers of up to MaxParseEntries entries, whole or cut short inside the
\* last name terminator (1 byte) or inside the last fixed header (30 bytes).
ParseBuffers ==
  {SubSeq(Concat(items), 1, Max(0, Len(Concat(items)) - cut)) :
     items \in UNION {[1..n -> ParseItems] : n \in 0..MaxParseEntries}, cut \in {0, 1, 30}}

\* A Directory entry with an empty name whose only child is the entry after it.
ChainLink ==
  PackEntry([type |-> "dir", name |-> <<>>, attributes |-> DirFlag,
             child_count |-> 1, time_bytes |-> Zeros(TimeSize)])

\* n directories nested one inside the other.
DeepChain(n) == [i \in 1..(n * Len(ChainLink)) |-> ChainLink[((i - 1) % Len(ChainLink)) + 1]]

\* main after the index was inflated: any buffer and any root_count.
InitParse ==
  /\ InitIdleBuilder
  /\ pak_bytes = <<>>
  /\ entries = <<>>
  /\ next_file = 1
  /\ extracted = EmptyDict
  /\ err = ""
  /\ pak_file = NoFile
  /\ dpc = "index"
  /\ \E buf \in ParseBuffers \cup {DeepChain(RecursionLimit)},
        rc \in {0, 1, 2, 3, HugeCount} :
       /\ index_data = buf
       /\ meta = [NoMeta EXCEPT !.root_count = rc, !.index_uncompressed = Len(buf)]

SpecParse == InitParse /\ [][UnpackParse]_vars

\* ------------------------------------- PakBuilder under a caller that goes on
\* A slip in add_file: the entry is appended before the path is looked at.
MutFailedAddFile(m, dat, es, cur) ==
  [data |-> dat, index_entries |-> Append(es, FileEntry(m, cur, <<>>)), current_offset |-> cur]

\* add_file, lines 47-50: the path is no file, FileNotFoundError is raised in
\* the first statement; the builder after the call
FailedAddFile(m, dat, es, cur) ==
  [data |-> dat, index_entries |-> es, current_offset |-> cur]

\* A caller that catches the FileNotFoundError of add_file and goes on with
\* the next entry.
CaughtAddFileError ==
  /\ bpc = "loop" /\ next_entry <= Len(json_entries)
  /\ CurrentInfo.type = "file"
  /\ CurrentInfo.path \notin DOMAIN source_files
  /\ LET b == FailedAddFile(CurrentInfo, data, index_entries, current_offset)
     IN /\ data' = b.data
        /\ index_entries' = b.index_entries
        /\ current_offset' = b.current_offset
  /\ next_entry' = next_entry + 1
  /\ UNCHANGED <<inputVars, bpc, pak_file, decoderVars>>

NextBuilder ==
  MainAddDir \/ MainAddFile \/ CaughtAddFileError \/ MainSkipUnknown \/ MainSave

\* The builder driven through any list of entries over any source directory.
SpecBuilder == Init /\ [][NextBuilder]_vars

\* ------------------------------------------------- read_header on any bytes
\* A byte string of length n: the global header with the given magic and
\* offset field, the 24-byte extended header ext_lo at byte at_lo and ext_raw
\* at byte at_raw, zero elsewhere.
HeaderPak(n, magic, raw_header, at_lo, ext_lo, at_raw, ext_raw) ==
  LET g == magic \o LE32(raw_header) \o LE32(PakVersion) \o LE32(0)
  IN [i \in 1..n |->
        IF i <= GlobalHeaderSize THEN g[i]
        ELSE IF i > at_lo /\ i <= at_lo + ExtHeaderSize THEN ext_lo[i - at_lo]
        ELSE IF i > at_raw /\ i <= at_raw + ExtHeaderSize THEN ext_raw[i - at_raw]
        ELSE 0]

Magics == {<<80, 65, 75, 0>>, <<80, 65, 75, 1>>}
RawHeaders == {16, 65552}
ExtChoices ==
  { ExtHeader(24, 0, 0, 0, 8, 0), ExtHeader(24, 0, 0, 54, 0, 0),
    ExtHeader(24, 0, 0, 54, 8, 0), ExtHeader(25, 0, 0, 54, 8, 0) }
\* Lengths around the places where a candidate starts to fit.
PakLengths(raw_header) ==
  {8, 39, 47, 48, 49} \cup
  (IF raw_header > LowMask THEN {raw_header + 31, raw_header + 32, raw_header + 33} ELSE {})

InitHeader ==
  /\ InitIdleBuilder
  /\ InitDecoder
  /\ \E magic \in Magics, raw_header \in RawHeaders :
       \E n \in PakLengths(raw_header), ext_lo \in ExtChoices, ext_raw \in ExtChoices :
         pak_file = HeaderPak(n, magic, raw_header, raw_header % LowMask, ext_lo,
                              raw_header, ext_raw)

SpecHeader == InitHeader /\ [][UnpackReadHeader]_vars

\* ================================================================ claims
IsPrefix(p, q) == Len(p) <= Len(q) /\ SubSeq(q, 1, Len(p)) = p

UnpackEnded == dpc \in {"done", "error"}

DefaultHeader == DOMAIN header_info = {"root_count"}

AllSourcesExist == FilePaths(json_entries) \subseteq DOMAIN source_files

AsciiNames == \A i \in 1..Len(json_entries) : Cp932Encodable(PathName(json_entries[i].path))

\* The input is a tree of directories and files whose child_count fields hold
\* the number of direct children.
TreeInput ==
  /\ \A i \in 1..Len(json_entries) : json_entries[i].type \in {"dir", "file"}
  /\ \A i \in 1..Len(json_entries) :
       json_entries[i].type = "dir" =>
         json_entries[i].child_count =
           Cardinality({j \in 1..Len(json_entries) :
                          /\ Len(json_entries[j].path) = Len(json_entries[i].path) + 1
                          /\ IsPrefix(json_entries[i].path, json_entries[j].path)})

\* The files of the input tree: relative path -> content.
ExpectedFiles == [q \in FilePaths(json_entries) |-> source_files[q]]

\* C1 (as claimed): once the unpacker has ended on the container built from a
\* tree whose sources all exist, it has ended without error and the output
\* directory holds exactly the tree's files, byte for byte.  Stated for a
\* non-empty entry list with cp932 names and default header fields.
C1_RoundTrip ==
  (UnpackEnded /\ TreeInput /\ AllSourcesExist /\ DefaultHeader /\ AsciiNames
     /\ json_entries # <<>>)
  => (dpc = "done" /\ extracted = ExpectedFiles)

\* Entries of the parsed list below the directory at position i.
ParsedSubTree(i) ==
  {j \in (i + 1)..Len(entries) : IsPrefix(entries[i].path, entries[j].path)}

ParsedChildren(i) ==
  {j \in ParsedSubTree(i) : Len(entries[j].path) = Len(entries[i].path) + 1}

ParsedDirs == {i \in 1..Len(entries) : entries[i].type = "dir"}

\* C2 (as claimed): after a successful parse, every directory's sub-tree
\* (children and all nested descendants) has exactly child_count entries.
C2_SubTreeIsChildCount ==
  dpc \in {"parsed", "done"} =>
    \A i \in ParsedDirs : Cardinality(ParsedSubTree(i)) = entries[i].child_count

\* C2 (amended): after a successful parse, every directory has exactly
\* child_count direct children; the entries of nested directories come on top.
C2_DirectChildrenIsChildCount ==
  dpc \in {"parsed", "done"} =>
    \A i \in ParsedDirs : Cardinality(ParsedChildren(i)) = entries[i].child_count

\* C2 witness: a parsed directory holding a directory that holds an entry.
C2_Witness ==
  /\ dpc \in {"parsed", "done"}
  /\ \E i \in ParsedDirs : \E j \in ParsedChildren(i) :
       entries[j].type = "dir" /\ entries[j].child_count > 0

\* C3 (as claimed): the container saved from an empty entry list with
\* root_count = 0 is accepted by read_header and decodes to an empty list.
C3_EmptyContainerDecodes ==
  (UnpackEnded /\ json_entries = <<>> /\ DefaultHeader)
  => (dpc = "done" /\ err = "" /\ entries = <<>>)

\* C4 (as claimed): on every container save wrote, read_header succeeds, the
\* candidate it accepts is the low 16 bits of the stored offset field, and the
\* index sizes it returns are the ones save computed.
C4_HeaderLocatable ==
  (pak_file # NoFile /\ dpc # "wait")
  => /\ err # "header"
     /\ meta.header_offset = Get(header_info, "header_offset", DefaultHeaderOffset) % LowMask
     /\ meta.index_uncompressed = Len(BuildIndex(index_entries))
     /\ meta.index_compressed = Len(Deflate(BuildIndex(index_entries)))

\* The File entries of the builder tile data from cursor on.
RECURSIVE Tiles(_, _, _)
Tiles(es, cursor, end) ==
  IF es = <<>> THEN cursor = end
  ELSE IF Head(es).type = "file"
  THEN Head(es).offset = cursor /\ Tiles(Tail(es), cursor + Head(es).compressed_size, end)
  ELSE Tiles(Tail(es), cursor, end)

\* C6: after any sequence of add_dir and add_file calls the File entries, in
\* index_entries order, tile the data buffer: the first starts at 0, each next
\* one starts where the previous ends, the last ends at len(data), which is
\* current_offset.
C6_OffsetContiguity ==
  /\ Tiles(index_entries, 0, Len(data))
  /\ current_offset = Len(data)

\* C6 witness: two files with a directory between them have been added.
C6_Witness ==
  \E i, j, k \in 1..Len(index_entries) :
    /\ i < j /\ j < k
    /\ index_entries[i].type = "file" /\ index_entries[i].compressed_size > 0
    /\ index_entries[j].type = "dir"
    /\ index_entries[k].type = "file"

MissingSource ==
  \E i \in 1..Len(json_entries) :
    json_entries[i].type = "file" /\ json_entries[i].path \notin DOMAIN source_files

\* C7: when a File descriptor names a missing source, the repack run never
\* reaches save and no container file is written: the entry loop always has a
\* next step and never runs out of entries, so the run can only end by
\* exiting with status 1.
C7_MissingSourceAborts ==
  MissingSource =>
    /\ pak_file = NoFile
    /\ bpc \in {"loop", "exit1"}
    /\ bpc = "loop" =>
         /\ next_entry <= Len(json_entries)
         /\ ENABLED (MainAddDir \/ MainAddFile \/ MainAddFileError \/ MainSkipUnknown)

\* C7 witness: the run exited on a missing source after packing earlier entries.
C7_Witness == bpc = "exit1" /\ MissingSource /\ data # <<>> /\ pak_file = NoFile

\* C9 (as claimed): in the container save wrote, the extended header is at
\* byte header_offset, the compressed index at header_offset + index_rel, and
\* the data section from header_offset + index_rel + index_compressed_size to
\* the end, for the declared header_offset and index_rel.
C9_LayoutMatchesHeader ==
  pak_file # NoFile =>
    LET ho == Get(header_info, "header_offset", DefaultHeaderOffset)
        rel == Get(header_info, "index_rel", DefaultIndexRel)
        blob == Deflate(BuildIndex(index_entries))
    IN /\ U32(pak_file, 4) = ho
       /\ Slice(pak_file, ho, ho + ExtHeaderSize)
            = ExtHeader(rel, 0, Get(header_info, "root_count", 0),
                        Len(BuildIndex(index_entries)), Len(blob), 0)
       /\ Slice(pak_file, ho + rel, ho + rel + Len(blob)) = blob
       /\ Slice(pak_file, ho + rel + Len(blob), Len(pak_file)) = data
       /\ Len(pak_file) = ho + rel + Len(blob) + Len(data)

\* File entries the extraction loop has passed: extract_file returned for them.
Processed == {j \in 1..(next_file - 1) : j <= Len(entries) /\ entries[j].type = "file"}

\* extract_file raised on the File entry at next_file.
ExtractFailed == dpc = "error" /\ err \in {"range", "inflate", "size"}

PayloadSlice(e) ==
  Slice(pak_bytes, meta.data_offset + e.offset, meta.data_offset + e.offset + e.compressed_size)

InRange(e) == meta.data_offset + e.offset + e.compressed_size <= Len(pak_bytes)

\* The slice is a stream with one known inflated form.
KnownStream(z) == (\E q \in ZTable : q[2] = z) \/ IsStoredBlock(z)
TrueInflated(z) == (CHOOSE r \in InflateOutcomes(z) : TRUE).data

Abs(n) == IF n < 0 THEN 0 - n ELSE n

\* The declared uncompressed_size of e is one off the length its payload
\* inflates to.
WrongByOne(e) ==
  /\ InRange(e)
  /\ KnownStream(PayloadSlice(e))
  /\ Abs(e.uncompressed_size - Len(TrueInflated(PayloadSlice(e)))) = 1

IndexBlob == Slice(pak_bytes, meta.index_offset, meta.index_offset + meta.index_compressed)

\* The index part of C5: an index blob that inflates to another length than
\* index_uncompressed_size ends the unpack with the index size error.
IndexSizeChecked ==
  (dpc \notin {"wait", "header"} /\ err # "header" /\ KnownStream(IndexBlob)
     /\ Len(TrueInflated(IndexBlob)) # meta.index_uncompressed)
  => (dpc = "error" /\ err = "index_size")

\* C5 (as claimed): a wrong index size fails the unpack, and extract_file
\* never returns for a File entry whose declared uncompressed_size is one off
\* the inflated length of its payload, whatever its compressed_size.
C5_SizeMismatchDetected ==
  /\ IndexSizeChecked
  /\ \A j \in Processed : ~WrongByOne(entries[j])

\* C5 (amended): a wrong index size fails the unpack; extract_file never
\* returns for a File entry with compressed_size # uncompressed_size whose
\* declared uncompressed_size is one off the inflated length of its payload,
\* and fails on it with the size error; an entry with compressed_size =
\* uncompressed_size is never inflated: its slice is written as it is.
C5_SizeMismatchDetectedWhenInflated ==
  /\ IndexSizeChecked
  /\ \A j \in Processed :
       IF entries[j].compressed_size # entries[j].uncompressed_size
       THEN ~WrongByOne(entries[j])
       ELSE extracted[entries[j].path] = PayloadSlice(entries[j])
  /\ (ExtractFailed /\ WrongByOne(entries[next_file])
        /\ entries[next_file].compressed_size # entries[next_file].uncompressed_size)
     => err = "size"

\* C5 witness: extract_file failed with the size error on an inflated payload
\* one byte longer or shorter than declared.
C5_Witness ==
  /\ ExtractFailed /\ err = "size"
  /\ WrongByOne(entries[next_file])
  /\ entries[next_file].compressed_size # entries[next_file].uncompressed_size

\* What the claim calls a qualifying candidate.
Qualifies(pak, c) ==
  /\ c + 24 <= Len(pak)
  /\ U32(pak, c + 12) # 0
  /\ U32(pak, c + 16) # 0
  /\ c + U32(pak, c) + U32(pak, c + 16) <= Len(pak)

HeaderFailed == dpc = "error" /\ err = "header"
HeaderAccepted(c) ==
  /\ dpc = "header"
  /\ meta.header_offset = c
  /\ meta.index_rel = U32(pak_bytes, c)
  /\ meta.index_uncompressed = U32(pak_bytes, c + 12)
  /\ meta.index_compressed = U32(pak_bytes, c + 16)
  /\ meta.data_offset = c + U32(pak_bytes, c) + U32(pak_bytes, c + 16)

\* C8: read_header fails on a wrong magic (and on fewer than 16 bytes, where
\* no candidate fits); otherwise it returns the low 16 bits of the offset
\* field when that candidate qualifies, else the raw 32-bit value when that
\* one qualifies, and fails with the header error when neither does.
C8_CandidateSelection ==
  dpc # "wait" =>
    IF Len(pak_bytes) < 16 \/ SubSeq(pak_bytes, 1, 4) # <<80, 65, 75, 0>> THEN HeaderFailed
    ELSE LET raw == U32(pak_bytes, 4)
             low == raw % 65536
         IN IF Qualifies(pak_bytes, low) THEN HeaderAccepted(low)
            ELSE IF Qualifies(pak_bytes, raw) THEN HeaderAccepted(raw)
            ELSE HeaderFailed

\* C8 witness: the low-16-bits candidate did not qualify and the raw 32-bit
\* value was accepted.
C8_Witness ==
  /\ dpc = "header"
  /\ meta.header_offset = U32(pak_bytes, 4)
  /\ meta.header_offset > 65535
  /\ meta.data_offset = Len(pak_bytes)

\* C10: a file is in the output directory only for a File entry extract_file
\* returned for, whose slice lies inside the container and whose payload has
\* exactly uncompressed_size bytes; extract_file fails with the range error
\* exactly when the slice leaves the container, and then writes nothing for
\* the entry.
C10_RangeSafety ==
  /\ \A q \in DOMAIN extracted :
       \E j \in Processed :
         /\ entries[j].path = q
         /\ InRange(entries[j])
         /\ Len(extracted[q]) = entries[j].uncompressed_size
  /\ \A j \in Processed : InRange(entries[j]) /\ entries[j].path \in DOMAIN extracted
  /\ ExtractFailed =>
       /\ err = "range" <=> ~InRange(entries[next_file])
       /\ entries[next_file].path \notin DOMAIN extracted

\* C10 witness: extract_file failed with the range error on a slice that
\* starts inside the container and ends outside it.
C10_Witness ==
  /\ ExtractFailed /\ err = "range"
  /\ meta.data_offset + entries[next_file].offset <= Len(pak_bytes)
  /\ ~InRange(entries[next_file])

\* ------------------------------------------------------------------- C11
\* parse_entries has returned or raised.
ParseEnded == dpc \in {"parsed", "error"}

\* C11: for any index buffer, any root count and any child_count stored in it,
\* parse_entries either returns with next_position <= the buffer length and at
\* most (buffer length / 53) entries, or fails with the index-corrupt error,
\* and fails in no other way.
C11_BoundedParse ==
  ParseEnded =>
    IF dpc = "parsed"
    THEN /\ ParseEntries(index_data, 0, meta.root_count, <<>>).pos <= Len(index_data)
         /\ (EntryFixedSize + 1) * Len(entries) <= Len(index_data)
    ELSE err = "index_corrupt"

\* C11, the part that holds: a parse that returns stays inside the buffer, and
\* a parse of a buffer nested less deep than the interpreter allows fails only
\* with the index-corrupt error.
C11_BoundedParseShallow ==
  ParseEnded =>
    IF dpc = "parsed"
    THEN /\ ParseEntries(index_data, 0, meta.root_count, <<>>).pos <= Len(index_data)
         /\ (EntryFixedSize + 1) * Len(entries) <= Len(index_data)
    ELSE err \in {"index_corrupt", "recursion"}

\* C11: a buffer of RecursionLimit nested directories has been parsed and the
\* interpreter gave up.
C11_RecursionRaised == dpc = "error" /\ err = "recursion"

\* C11: a root count far larger than a non-empty buffer ends in the
\* index-corrupt error.
C11_CorruptRaised ==
  dpc = "error" /\ err = "index_corrupt" /\ meta.root_count = HugeCount /\ Len(index_data) > 0

\* ------------------------------------------------------------------- C12
\* The call the caller is about to make is add_file on a path that is no file.
AtFailingAddFile ==
  /\ bpc = "loop" /\ next_entry <= Len(json_entries)
  /\ CurrentInfo.type = "file"
  /\ CurrentInfo.path \notin DOMAIN source_files

\* One of the calls made so far was add_file on a path that is no file.
FailedBefore ==
  \E i \in 1..(next_entry - 1) :
    /\ i <= Len(json_entries)
    /\ json_entries[i].type = "file"
    /\ json_entries[i].path \notin DOMAIN source_files

\* C12: add_file on a path that is no file leaves data, index_entries and
\* current_offset exactly as they were before the call, and after such a call
\* the File entries still tile the data buffer, whatever add_dir, add_file or
\* save is called later.
C12_FailedAddFileChangesNothing ==
  [][/\ AtFailingAddFile =>
          /\ data' = data
          /\ index_entries' = index_entries
          /\ current_offset' = current_offset
     /\ FailedBefore' =>
          /\ Tiles(index_entries', 0, Len(data'))
          /\ current_offset' = Len(data')]_vars

\* C12: add_file failed, a later add_file stored a payload, and save has run.
C12_Witness ==
  /\ bpc = "done"
  /\ data # <<>>
  /\ \E i, j \in 1..Len(json_entries) :
       /\ i < j
       /\ json_entries[i].type = "file" /\ json_entries[i].path \notin DOMAIN source_files
       /\ json_entries[j].type = "file" /\ json_entries[j].path \in DOMAIN source_files
       /\ source_files[json_entries[j].path] # <<>>

====
